---------------------------- MODULE Spec2Model ----------------------------
(***************************************************************************)
(* Rectif (rectify_gui): perspective correction of photographed documents. *)
(*                                                                         *)
(* The module models                                                       *)
(*   - utils_geom.order_points / four_point_transform and                  *)
(*     image_ops.warp_perspective            (specification SpecGeom),     *)
(*   - image_ops.auto_detect_corners         (specification SpecDetect),   *)
(*   - image_ops.clamp_size                  (specification SpecClamp),    *)
(*   - image_ops.full_pipeline               (specification SpecPipe).     *)
(*                                                                         *)
(* Conventions.  A point is a pair <<x, y>>.  Python sequences are indexed *)
(* from 0, TLA+ sequences from 1: rect[0..3] of the source is val[1..4]    *)
(* here.  Coordinates are integers small enough that every float32 sum,    *)
(* difference and square of the source is exact.  An image is a record of  *)
(* its width, its height and the sequence of operations that produced its  *)
(* pixels from the source image (ops); two images are the same buffer      *)
(* content iff the records are equal.                                      *)
(***************************************************************************)
EXTENDS Integers, Sequences, FiniteSets, TLC

VARIABLES
    \* --- SpecGeom
    pts,        \* the point array handed to order_points / warp_perspective
    rect,       \* outcome of the last call order_points(pts)
    warp,       \* outcome of the last call warp_perspective(img, pts)
    last,       \* the operation that acted last
    \* --- SpecDetect
    dimg,       \* the image handed to auto_detect_corners (its size)
    dlimit,     \* its argument downscale
    contours,   \* what cv2.findContours returns on the working image
    det,        \* outcome of the call auto_detect_corners(img)
    \* --- SpecClamp
    cimg,       \* the image handed to clamp_size
    cref,       \* its argument ref_max_dim
    cpct,       \* its argument max_scale_factor, in hundredths
    cout,       \* outcome of the call clamp_size(img, ref, ...)
    cagain,     \* outcome of clamp_size on the image that call returned
    \* --- SpecPipe
    pimg,       \* the source image handed to full_pipeline
    pcorn,      \* its argument pts, the four corners
    popt,       \* its keyword arguments
    pc,         \* the statement of full_pipeline to be executed next
    result,     \* its local variable result
    pref,       \* its local variable ref
    plog,       \* the functions it has called, in order
    \* --- SpecSharpen
    spix,       \* one channel value of the image handed to apply_sharpen
    sblur,      \* the value cv2.GaussianBlur gives at that place
    samt,       \* the argument amount, in tenths
    sout,       \* the value apply_sharpen returns at that place
    \* --- SpecDisplay
    yimg,       \* the image handed to get_display_image
    ymax,       \* its argument max_dim
    yout,       \* outcome of the call get_display_image(img, max_dim)
    \* --- SpecDebounce
    tactive,    \* _preview_debounce.isActive()
    tleft,      \* milliseconds until _preview_debounce times out
    tquiet,     \* milliseconds since the last change event
    tchk,       \* isChecked() of the checkbox of the option changed
    tcur,       \* what _update_preview finds as the current queue item
    bevents,    \* change events of the burst in progress
    bcalls,     \* calls of _update_preview by the timer since it began
    bpipe,      \* calls of full_pipeline made by those
    \* --- SpecApp
    platform,   \* the file system: "posix" matches names by case
    queue,      \* MainWindow._queue
    current_index,  \* MainWindow._current_index
    current_meta,   \* MainWindow._current_meta: the file it was read from
    viewer,     \* MainWindow._viewer
    preview,    \* the pipeline result _preview_viewer shows
    qrow,       \* _queue_list.currentRow()
    apc,        \* "load" while a call of _load_current_image is pending
    adepth,     \* the calls of _load_current_image nested in one another
    aafter,     \* a caller waits to call setCurrentRow(current_index)
    overflow,   \* the nesting has exhausted the interpreter's stack
    lastsave    \* the arguments of the last call of save_image_with_meta

gvars == <<pts, rect, warp, last>>

dvars == <<dimg, dlimit, contours, det>>

cvars == <<cimg, cref, cpct, cout, cagain>>

pvars == <<pimg, pcorn, popt, pc, result, pref, plog>>

svars == <<spix, sblur, samt, sout>>

\* the variables of the geometry, detection, clamp and pipeline models
corevars == <<gvars, dvars, cvars, pvars>>

yvars == <<yimg, ymax, yout>>

tvars == <<tactive, tleft, tquiet, tchk, tcur, bevents, bcalls, bpipe>>

avars == <<platform, queue, current_index, current_meta, viewer, preview,
           qrow, apc, adepth, aafter, overflow, lastsave>>

\* the variables of the enhancement, display and window models
uvars == <<svars, yvars, tvars, avars>>

vars == <<gvars, dvars, cvars, pvars, uvars>>

---------------------------------------------------------------------------
(* Bounds of the model *)

\* largest coordinate of a corner in SpecGeom
MaxCoord == 2

\* largest number of points of a malformed point array
MaxPoints == 5

\* largest width and height of an image handed to auto_detect_corners
MaxDetectDim == 4

\* largest number of contours cv2.findContours returns
MaxContours == 2

\* twice the largest contour area
MaxArea2 == 4

\* largest width and height of an image handed to clamp_size
MaxClampDim == 13

\* largest ref_max_dim handed to clamp_size
MaxClampRef == 20

\* largest side of a source image handed to full_pipeline
MaxPipeDim == 20

\* largest x and largest y of a corner handed to full_pipeline
MaxPipeX == 11

MaxPipeY == 1

---------------------------------------------------------------------------
(* Arithmetic helpers *)

Max(a, b) == IF a >= b THEN a ELSE b

Min(a, b) == IF a <= b THEN a ELSE b

\* int(np.sqrt(n)) for an integer n >= 0 whose square root float32 rounds
\* to the same side of every integer (n < 2^23): the integer square root
ISqrt(n) == CHOOSE r \in 0..n : r * r <= n /\ (r + 1) * (r + 1) > n

---------------------------------------------------------------------------
(* IEEE-754 double arithmetic of the source, on integers.                  *)
(*                                                                         *)
(* The source computes sizes as int(w * (a / m)) and, inside cv2.resize,   *)
(* as cvRound(w * (a / m)), with w, a, m integers and the quotient and the *)
(* product rounded to double (53-bit significand, round to nearest even).  *)
(* The quotient is q = (a * 2^k + eps) / (m * 2^k) with k = 52 - e,        *)
(* 2^e <= a/m < 2^(e+1), and eps in (-m/2, m/2) the rounding of the        *)
(* division: eps = -r or m - r for r = (a * 2^k) mod m.  The product       *)
(* w * q differs from w*a/m by w*eps / (m * 2^k), which can carry it       *)
(* across an integer (or across a half) only when w*a/m is exactly that    *)
(* integer (half); it then rounds back to it iff the difference is at most *)
(* half the spacing of the doubles there.                                  *)

RECURSIVE Pow2(_)
Pow2(k) == IF k <= 0 THEN 1 ELSE 2 * Pow2(k - 1)

\* 2^k mod m
RECURSIVE Pow2Mod(_, _)
Pow2Mod(k, m) == IF k <= 0 THEN 1 % m ELSE (2 * Pow2Mod(k - 1, m)) % m

\* the exponent e with 2^e <= n/d < 2^(e+1), for n, d >= 1
RECURSIVE FLog2(_, _)
FLog2(n, d) ==
    IF n < d THEN FLog2(2 * n, d) - 1
    ELSE IF n >= 2 * d THEN FLog2(n, 2 * d) + 1
    ELSE 0

IsPow2(n) == \E k \in 0..n : Pow2(k) = n

\* (a * 2^(52 - e)) mod m: the remainder of the division a / m at the last
\* bit of the quotient
DivRemainder(a, m) ==
    ((a % m) * Pow2Mod(52 - FLog2(a, m), m)) % m

\* int(w * (a / m)) computed in exact arithmetic
TruncMulDivExact(w, a, m) == (w * a) \div m

\* int(w * (a / m)) for integers w, a >= 0 and m >= 1
TruncMulDiv(w, a, m) ==
    IF a = 0 \/ w = 0 THEN 0
    ELSE LET N == (w * a) \div m
             r == DivRemainder(a, m)
         IN  IF (w * a) % m # 0 THEN N
             ELSE IF r = 0 \/ 2 * r >= m THEN N   \* w * q >= N
             ELSE IF (IF IsPow2(N) THEN 4 ELSE 2) * w * r
                        > m * Pow2(FLog2(N, 1) - FLog2(a, m))
                  THEN N - 1                      \* w * q rounds below N
                  ELSE N

\* cvRound(w * (a / m)), round half to even, for integers w, a >= 0, m >= 1
RoundMulDiv(w, a, m) ==
    IF a = 0 \/ w = 0 THEN 0
    ELSE LET k == (2 * w * a) \div (2 * m)
             f2 == (2 * w * a) % (2 * m)
             even == IF k % 2 = 0 THEN k ELSE k + 1
             r == DivRemainder(a, m)
             sp == m * Pow2(FLog2(2 * k + 1, 2) - FLog2(a, m))
         IN  IF f2 < m THEN k
             ELSE IF f2 > m THEN k + 1
             ELSE IF r = 0 THEN even
             ELSE IF 2 * r < m
                  THEN IF (IF k = 0 THEN 4 ELSE 2) * w * r > sp
                       THEN k ELSE even
                  ELSE IF 2 * w * (m - r) > sp THEN k + 1 ELSE even

---------------------------------------------------------------------------
(* utils_geom.order_points *)

\* rect = np.zeros((4, 2)): the result always has four rows
NumCorners == 4

\* np.argmin drops the last element of the scan (a loop-bound slip)
ArgMinShort(v) ==
    LET n == IF Len(v) > 1 THEN Len(v) - 1 ELSE Len(v) IN
    CHOOSE i \in 1..n :
        /\ \A j \in 1..n : v[i] <= v[j]
        /\ \A j \in 1..(i - 1) : v[j] > v[i]

\* np.argmin(v): the index of the FIRST occurrence of the minimum
ArgMin(v) ==
    CHOOSE i \in 1..Len(v) :
        /\ \A j \in 1..Len(v) : v[i] <= v[j]
        /\ \A j \in 1..(i - 1) : v[j] > v[i]

\* np.argmax(v): the index of the FIRST occurrence of the maximum
ArgMax(v) ==
    CHOOSE i \in 1..Len(v) :
        /\ \A j \in 1..Len(v) : v[i] >= v[j]
        /\ \A j \in 1..(i - 1) : v[j] < v[i]

\* pts.sum(axis=1): x + y of every row
RowSum(p) == [i \in 1..Len(p) |-> p[i][1] + p[i][2]]

\* np.diff(pts, axis=1): the second column minus the first, y - x
RowDiff(p) == [i \in 1..Len(p) |-> p[i][2] - p[i][1]]

\* the outcome of a call that has not been made
NoCall == [called |-> FALSE, ok |-> FALSE, err |-> "", val |-> <<>>]

Raised(e) == [called |-> TRUE, ok |-> FALSE, err |-> e, val |-> <<>>]

Returned(v) == [called |-> TRUE, ok |-> TRUE, err |-> "", val |-> v]

\* order_points with the difference taken as x - y
order_points_xy(p) ==
    IF Len(p) = 0
    THEN Raised("ValueError")
    ELSE LET s == RowSum(p)
             diff == [i \in 1..Len(p) |-> p[i][1] - p[i][2]]
         IN  Returned(<< p[ArgMin(s)], p[ArgMin(diff)],
                         p[ArgMax(s)], p[ArgMax(diff)] >>)

\* order_points(pts).  The source never looks at the number of rows: the
\* only failure is numpy's ValueError of argmin on an empty array.
order_points(p) ==
    IF Len(p) = 0
    THEN Raised("ValueError")
    ELSE LET s == RowSum(p)
             diff == RowDiff(p)
         IN  Returned(<< p[ArgMin(s)],       \* rect[0] top-left
                         p[ArgMin(diff)],    \* rect[1] top-right
                         p[ArgMax(s)],       \* rect[2] bottom-right
                         p[ArgMax(diff)] >>) \* rect[3] bottom-left

---------------------------------------------------------------------------
(* utils_geom.four_point_transform and image_ops.warp_perspective *)

\* int(np.sqrt((a.x - b.x)**2 + (a.y - b.y)**2))
EdgeLen(a, b) ==
    ISqrt((a[1] - b[1]) * (a[1] - b[1]) + (a[2] - b[2]) * (a[2] - b[2]))

\* four_point_transform with the smaller of the two parallel edges
four_point_transform_min(p) ==
    LET o == order_points(p) IN
    IF ~o.ok THEN o
    ELSE LET tl == o.val[1]
             tr == o.val[2]
             br == o.val[3]
             bl == o.val[4]
             max_width  == Min(EdgeLen(br, bl), EdgeLen(tr, tl))
             max_height == Min(EdgeLen(tr, br), EdgeLen(tl, bl))
         IN  Returned([dst |-> << <<0, 0>>,
                                  <<max_width - 1, 0>>,
                                  <<max_width - 1, max_height - 1>>,
                                  <<0, max_height - 1>> >>,
                       ordered |-> o.val])

\* four_point_transform(image, pts): the destination rectangle and the
\* ordered points; an exception of order_points propagates
four_point_transform(p) ==
    LET o == order_points(p) IN
    IF ~o.ok THEN o
    ELSE LET tl == o.val[1]
             tr == o.val[2]
             br == o.val[3]
             bl == o.val[4]
             max_width  == Max(EdgeLen(br, bl), EdgeLen(tr, tl))
             max_height == Max(EdgeLen(tr, br), EdgeLen(tl, bl))
         IN  Returned([dst |-> << <<0, 0>>,
                                  <<max_width - 1, 0>>,
                                  <<max_width - 1, max_height - 1>>,
                                  <<0, max_height - 1>> >>,
                       ordered |-> o.val])

\* The request warp_perspective makes of cv2: the size (w, h) of the
\* output buffer handed to cv2.warpPerspective, with the destination
\* rectangle and the ordered source corners handed to
\* cv2.getPerspectiveTransform.
warp_request(p) ==
    LET f == four_point_transform(p) IN
    IF ~f.ok THEN f
    ELSE Returned([w |-> f.val.dst[3][1] + 1,
                   h |-> f.val.dst[3][2] + 1,
                   dst |-> f.val.dst,
                   ordered |-> f.val.ordered])

---------------------------------------------------------------------------
(* image_ops.clamp_size *)

\* the factors are hundredths: the caller passes slider.value() / 100.0,
\* and the defaults 1.25 and 0.75 are 125 / 100.0 and 75 / 100.0 exactly
PercentDen == 100

\* min_scale_factor = 0.75
MinScalePct == 75

\* max_scale_factor = 1.25, the default
DefaultMaxScalePct == 125

\* an image of the source: its size and the operations that made its pixels
SourceImage(w, h) == [w |-> w, h |-> h, ops |-> <<>>]

\* the result of an operation that keeps the size
Applied(img, op, par) ==
    [w |-> img.w, h |-> img.h, ops |-> Append(img.ops, [op |-> op, par |-> par])]

\* cv2.resize(img, (new_w, new_h), interpolation=...): cv2 raises when the
\* requested size is empty, and resamples otherwise
cv2_resize(img, new_w, new_h, interpolation) ==
    IF new_w <= 0 \/ new_h <= 0
    THEN Raised("cv2.error")
    ELSE Returned([w |-> new_w, h |-> new_h,
                   ops |-> Append(img.ops, [op |-> interpolation, par |-> 0])])

\* clamp_size(img, ref_max_dim, max_scale_factor, min_scale_factor)
clamp_size(img, ref_max_dim, max_pct, min_pct) ==
    LET h == img.h
        w == img.w
        current_max == Max(h, w)
        max_allowed == TruncMulDiv(ref_max_dim, max_pct, PercentDen)
        min_allowed == TruncMulDiv(ref_max_dim, min_pct, PercentDen)
    IN  IF current_max > max_allowed
        THEN \* scale = max_allowed / current_max
             cv2_resize(img, TruncMulDiv(w, max_allowed, current_max),
                             TruncMulDiv(h, max_allowed, current_max),
                             "INTER_AREA")
        ELSE IF current_max < min_allowed
        THEN \* scale = min_allowed / current_max
             cv2_resize(img, TruncMulDiv(w, min_allowed, current_max),
                             TruncMulDiv(h, min_allowed, current_max),
                             "INTER_CUBIC")
        ELSE Returned(img)

---------------------------------------------------------------------------
(* image_ops.auto_detect_corners *)
(*                                                                         *)
(* The contours cv2.findContours returns on the working image are an input *)
(* of the model: each candidate is the pair of cv2.contourArea(cnt), kept  *)
(* as twice the area (contour areas are multiples of 1/2), and of the      *)
(* polygon cv2.approxPolyDP(cnt, 0.02 * peri, True) simplifies it to.      *)
(* A returned corner is the pair of numerators of its coordinates over the *)
(* common denominator den: pts /= scale with scale = downscale / max(h, w) *)
(* multiplies by max(h, w) / downscale.                                    *)

\* min_area_ratio = 0.1: the area must reach one tenth of the image
MinAreaInv == 10

\* scale = min(downscale / max(h, w), 1.0) is below 1.0
Downscaled(img, downscale) == downscale < Max(img.h, img.w)

\* small.shape: cv2.resize(img, None, fx=scale, fy=scale) rounds each
\* side to the nearest integer; the image itself when scale = 1.0
SmallSize(img, downscale) ==
    IF Downscaled(img, downscale)
    THEN [w |-> RoundMulDiv(img.w, downscale, Max(img.h, img.w)),
          h |-> RoundMulDiv(img.h, downscale, Max(img.h, img.w))]
    ELSE [w |-> img.w, h |-> img.h]

\* area < min_area_ratio * small.shape[0] * small.shape[1], for an area
\* that is not exactly the tenth of the image
AreaTooSmall(c, small) == MinAreaInv * c.area2 < 2 * small.h * small.w

\* the contours taken in the order cv2.findContours gives them
SortedByAreaNone(cs) == cs

\* sorted(contours, key=cv2.contourArea, reverse=True): stable, the
\* candidates of equal area keep their order
RECURSIVE SortedByArea(_)
SortedByArea(cs) ==
    IF Len(cs) = 0 THEN <<>>
    ELSE LET i == CHOOSE k \in 1..Len(cs) :
                    /\ \A j \in 1..Len(cs) : cs[k].area2 >= cs[j].area2
                    /\ \A j \in 1..(k - 1) : cs[j].area2 < cs[k].area2
         IN  <<cs[i]>> \o SortedByArea(
                 [k \in 1..(Len(cs) - 1) |-> IF k < i THEN cs[k] ELSE cs[k + 1]])

\* the for loop: the first candidate, in the sorted order, that passes the
\* area test and whose polygon has 4 vertices; 0 when the loop ends
FirstAccepted(sorted, small) ==
    LET ok == {i \in 1..Len(sorted) :
                   /\ ~AreaTooSmall(sorted[i], small)
                   /\ Len(sorted[i].approx) = NumCorners}
    IN  IF ok = {} THEN 0 ELSE CHOOSE i \in ok : \A j \in ok : i <= j

\* the corners left in the coordinates of the working image
ScaleBackNone(p, img, downscale) == p

\* pts /= scale, as numerators over the denominator downscale
ScaleBack(p, img, downscale) ==
    [i \in 1..Len(p) |-> <<p[i][1] * Max(img.h, img.w),
                           p[i][2] * Max(img.h, img.w)>>]

\* the default corners: the four corners of the image passed in
FullImageCorners(img) ==
    << <<0, 0>>, <<img.w - 1, 0>>, <<img.w - 1, img.h - 1>>, <<0, img.h - 1>> >>

\* auto_detect_corners whose default corners are those of the working image
auto_detect_corners_small(img, downscale, found) ==
    LET small == SmallSize(img, downscale)
        sorted == SortedByArea(found)
        i == FirstAccepted(sorted, small)
    IN  IF small.w <= 0 \/ small.h <= 0
        THEN Raised("cv2.error")
        ELSE IF i # 0
        THEN IF Downscaled(img, downscale)
             THEN Returned([corners |->
                                order_points(ScaleBack(sorted[i].approx,
                                                       img, downscale)).val,
                            den |-> downscale,
                            success |-> TRUE])
             ELSE Returned([corners |-> order_points(sorted[i].approx).val,
                            den |-> 1,
                            success |-> TRUE])
        ELSE Returned([corners |-> FullImageCorners(small),
                       den |-> 1,
                       success |-> FALSE])

\* auto_detect_corners(img, min_area_ratio=0.1, downscale)
auto_detect_corners(img, downscale, found) ==
    LET small == SmallSize(img, downscale)
        sorted == SortedByArea(found)
        i == FirstAccepted(sorted, small)
    IN  IF small.w <= 0 \/ small.h <= 0
        THEN \* cv2.resize refuses an empty working image
             Raised("cv2.error")
        ELSE IF i # 0
        THEN IF Downscaled(img, downscale)
             THEN Returned([corners |->
                                order_points(ScaleBack(sorted[i].approx,
                                                       img, downscale)).val,
                            den |-> downscale,
                            success |-> TRUE])
             ELSE Returned([corners |-> order_points(sorted[i].approx).val,
                            den |-> 1,
                            success |-> TRUE])
        ELSE Returned([corners |-> FullImageCorners(img),
                       den |-> 1,
                       success |-> FALSE])

---------------------------------------------------------------------------
(* image_ops.warp_perspective and the enhancement stages *)

\* cv2.warpPerspective(img, M, (w, h)): the output buffer has the size
\* asked for, or the size of the source when the size asked for is empty
cv2_warpPerspective(img, w, h) ==
    IF w <= 0 \/ h <= 0
    THEN [w |-> img.w, h |-> img.h,
          ops |-> Append(img.ops, [op |-> "warp", par |-> 0])]
    ELSE [w |-> w, h |-> h,
          ops |-> Append(img.ops, [op |-> "warp", par |-> 0])]

\* warp_perspective(img, pts): the rectified image
warp_perspective(img, p) ==
    LET rq == warp_request(p) IN
    IF ~rq.ok THEN rq
    ELSE Returned(cv2_warpPerspective(img, rq.val.w, rq.val.h))

\* apply_denoise(img, strength): non-local means, same size
apply_denoise(img, strength) == Applied(img, "denoise", strength)

\* apply_clahe(img, clip_limit): CLAHE on the L channel, same size; the
\* clip limit in tenths
apply_clahe(img, clip_limit) == Applied(img, "clahe", clip_limit)

\* apply_sharpen(img, amount): unsharp mask, same size; the amount in tenths
apply_sharpen(img, amount) == Applied(img, "sharpen", amount)

---------------------------------------------------------------------------
(* SpecGeom: the geometry functions applied to bounded point arrays *)

Coord == 0..MaxCoord

Points == Coord \X Coord

\* every array of exactly four points of the grid, in every order
QuadInputs == [1..NumCorners -> Points]

\* arrays with another number of rows, over the corner of the grid
MalformedInputs ==
    UNION { [1..n -> (0..1) \X (0..1)] :
                n \in (0..MaxPoints) \ {NumCorners} }

\* p with the rows i and i + 1 exchanged
SwapRows(p, i) ==
    [k \in 1..Len(p) |-> IF k = i THEN p[i + 1]
                         ELSE IF k = i + 1 THEN p[i] ELSE p[k]]

\* the variables of the other specifications, at rest
DetectIdle ==
    /\ dimg = [w |-> 0, h |-> 0]
    /\ dlimit = 0
    /\ contours = <<>>
    /\ det = NoCall

ClampIdle ==
    /\ cimg = [w |-> 0, h |-> 0, ops |-> <<>>]
    /\ cref = 0
    /\ cpct = 0
    /\ cout = NoCall
    /\ cagain = NoCall

PipeIdle ==
    /\ pimg = [w |-> 0, h |-> 0, ops |-> <<>>]
    /\ pcorn = <<>>
    /\ popt = [denoise |-> FALSE, denoise_strength |-> 0,
               clahe |-> FALSE, clahe_clip |-> 0,
               sharpen |-> FALSE, sharpen_amount |-> 0,
               clamp_enabled |-> FALSE, ref_max_dim |-> 0,
               max_scale_pct |-> 0]
    /\ pc = "idle"
    /\ result = [w |-> 0, h |-> 0, ops |-> <<>>]
    /\ pref = 0
    /\ plog = <<>>

SharpenIdle ==
    /\ spix = 0
    /\ sblur = 0
    /\ samt = 0
    /\ sout = NoCall

DisplayIdle ==
    /\ yimg = [w |-> 0, h |-> 0, ops |-> <<>>]
    /\ ymax = 0
    /\ yout = NoCall

DebounceIdle ==
    /\ tactive = FALSE
    /\ tleft = 0
    /\ tquiet = 0
    /\ tchk = FALSE
    /\ tcur = "idle"
    /\ bevents = 0
    /\ bcalls = 0
    /\ bpipe = 0

AppIdle ==
    /\ platform = "posix"
    /\ queue = <<>>
    /\ current_index = -1
    /\ current_meta = 0
    /\ viewer = [file |-> 0, image |-> [w |-> 0, h |-> 0, ops |-> <<>>],
                 pixmap |-> [w |-> 0, h |-> 0],
                 auto_failed |-> FALSE, corners |-> [pts |-> <<>>, den |-> 0]]
    /\ preview = 0
    /\ qrow = -1
    /\ apc = "idle"
    /\ adepth = 0
    /\ aafter = FALSE
    /\ overflow = FALSE
    /\ lastsave = [out |-> 0, fn |-> "none"]

UiIdle ==
    /\ SharpenIdle
    /\ DisplayIdle
    /\ DebounceIdle
    /\ AppIdle

GeomIdle ==
    /\ pts = <<>>
    /\ rect = NoCall
    /\ warp = NoCall
    /\ last = "idle"

CoreIdle ==
    /\ GeomIdle
    /\ DetectIdle
    /\ ClampIdle
    /\ PipeIdle

GeomInit ==
    /\ pts \in QuadInputs \cup MalformedInputs
    /\ rect = NoCall
    /\ warp = NoCall
    /\ last = "init"
    /\ DetectIdle
    /\ ClampIdle
    /\ PipeIdle
    /\ UiIdle

\* a caller calls order_points(pts)
OrderPoints ==
    /\ last = "init"
    /\ rect' = order_points(pts)
    /\ last' = "order"
    /\ UNCHANGED <<pts, warp, dvars, cvars, pvars, uvars>>

\* the caller passes the same points in another order (adjacent rows
\* exchanged: every ordering is reached by repeating the step)
Permute ==
    /\ rect.called
    /\ \E i \in 1..(Len(pts) - 1) :
          /\ pts' = SwapRows(pts, i)
          /\ rect' = order_points(pts')
    /\ warp' = NoCall
    /\ last' = "permute"
    /\ UNCHANGED <<dvars, cvars, pvars, uvars>>

\* order_points is applied to its own result (the defensive re-ordering
\* of four_point_transform on points that are already ordered)
Reorder ==
    /\ rect.ok
    /\ rect.val # pts
    /\ pts' = rect.val
    /\ rect' = order_points(rect.val)
    /\ warp' = NoCall
    /\ last' = "reorder"
    /\ UNCHANGED <<dvars, cvars, pvars, uvars>>

\* a caller calls warp_perspective(img, pts)
WarpPerspective ==
    /\ rect.called
    /\ ~warp.called
    /\ warp' = warp_request(pts)
    /\ last' = "warp"
    /\ UNCHANGED <<pts, rect, dvars, cvars, pvars, uvars>>

GeomNext ==
    \/ OrderPoints
    \/ Permute
    \/ Reorder
    \/ WarpPerspective

SpecGeom == GeomInit /\ [][GeomNext]_vars

---------------------------------------------------------------------------
(* Properties of order_points and warp_perspective (SpecGeom) *)

PointSet(p) == {p[i] : i \in 1..Len(p)}

SumOf(q) == q[1] + q[2]

\* y - x, the difference the source computes
DiffOf(q) == q[2] - q[1]

\* x - y, the difference as the prose states it
DiffXY(q) == q[1] - q[2]

\* the minimum and the maximum of x + y and of y - x are each attained by
\* exactly one row of p
UniqueExtremes(p) ==
    /\ Len(p) = NumCorners
    /\ \E i \in 1..Len(p) : \A j \in 1..Len(p) :
            j # i => SumOf(p[i]) < SumOf(p[j])
    /\ \E i \in 1..Len(p) : \A j \in 1..Len(p) :
            j # i => SumOf(p[i]) > SumOf(p[j])
    /\ \E i \in 1..Len(p) : \A j \in 1..Len(p) :
            j # i => DiffOf(p[i]) < DiffOf(p[j])
    /\ \E i \in 1..Len(p) : \A j \in 1..Len(p) :
            j # i => DiffOf(p[i]) > DiffOf(p[j])

\* z-component of (b - a) x (c - b)
Cross(a, b, c) ==
    (b[1] - a[1]) * (c[2] - b[2]) - (b[2] - a[2]) * (c[1] - b[1])

\* a, b, c, d in this order are the vertices of a strictly convex polygon
ConvexCycle(a, b, c, d) ==
    \/ /\ Cross(a, b, c) > 0 /\ Cross(b, c, d) > 0
       /\ Cross(c, d, a) > 0 /\ Cross(d, a, b) > 0
    \/ /\ Cross(a, b, c) < 0 /\ Cross(b, c, d) < 0
       /\ Cross(c, d, a) < 0 /\ Cross(d, a, b) < 0

\* the four rows of p, in some order, are the corners of a valid convex
\* quadrilateral (the three cyclic orders of four points, up to rotation
\* and reflection)
ConvexQuad(p) ==
    /\ Len(p) = NumCorners
    /\ \/ ConvexCycle(p[1], p[2], p[3], p[4])
       \/ ConvexCycle(p[1], p[2], p[4], p[3])
       \/ ConvexCycle(p[1], p[3], p[2], p[4])

\* C1 as stated: for every valid convex quadrilateral, passing the corners
\* in another order, or passing the result of order_points back to
\* order_points, leaves the result of order_points unchanged.
C1_AsStated ==
    [][(rect.ok /\ ConvexQuad(pts)) => rect' = rect]_vars

\* C1 (amended): for every valid convex quadrilateral whose minimum and
\* maximum of x + y and of y - x are each attained by exactly one corner,
\* order_points is permutation-invariant and idempotent: passing the
\* corners in another order, or passing the result back to order_points,
\* leaves the result unchanged.
C1_OrderInvariant ==
    [][(rect.ok /\ UniqueExtremes(pts) /\ ConvexQuad(pts))
            => rect' = rect]_vars

\* a convex quadrilateral with unique extremes whose corners were passed in
\* another order, which is not the canonical one
C1_Witness ==
    /\ last = "permute"
    /\ rect.ok
    /\ ConvexQuad(pts)
    /\ UniqueExtremes(pts)
    /\ rect.val # pts
    /\ PointSet(rect.val) = PointSet(pts)

\* C2 as stated: with diff = x - y, output[0] has the minimum sum,
\* output[2] the maximum sum, output[1] the minimum diff and output[3] the
\* maximum diff.
C2_AsStated ==
    (rect.ok /\ Len(pts) = NumCorners) =>
        /\ \A q \in PointSet(pts) : SumOf(rect.val[1]) <= SumOf(q)
        /\ \A q \in PointSet(pts) : SumOf(rect.val[3]) >= SumOf(q)
        /\ \A q \in PointSet(pts) : DiffXY(rect.val[2]) <= DiffXY(q)
        /\ \A q \in PointSet(pts) : DiffXY(rect.val[4]) >= DiffXY(q)

\* C2 (amended): with sum = x + y and diff = y - x, for any four points
\* output[0] is a point of the input with the minimum sum, output[2] one
\* with the maximum sum, output[1] one with the minimum diff and output[3]
\* one with the maximum diff.
C2_Labels ==
    (rect.ok /\ Len(pts) = NumCorners) =>
        /\ \A i \in 1..NumCorners : rect.val[i] \in PointSet(pts)
        /\ \A q \in PointSet(pts) : SumOf(rect.val[1]) <= SumOf(q)
        /\ \A q \in PointSet(pts) : SumOf(rect.val[3]) >= SumOf(q)
        /\ \A q \in PointSet(pts) : DiffOf(rect.val[2]) <= DiffOf(q)
        /\ \A q \in PointSet(pts) : DiffOf(rect.val[4]) >= DiffOf(q)

\* order_points has labelled four points whose differences are not all
\* equal, so that the sign of the difference shows
C2_Witness ==
    /\ last = "order"
    /\ rect.ok
    /\ Len(pts) = NumCorners
    /\ DiffOf(rect.val[2]) < DiffOf(rect.val[4])
    /\ SumOf(rect.val[1]) < SumOf(rect.val[3])

\* C3 as stated (the kind of the error left open): order_points, and so
\* warp_perspective, called with a point array that does not hold exactly
\* 4 points fails and returns no ordered result, so that the caller
\* cannot proceed to the warp.
C3_AsStated ==
    /\ (rect.called /\ Len(pts) # NumCorners) => ~rect.ok
    /\ (warp.called /\ Len(pts) # NumCorners) => ~warp.ok

\* the length of the segment a-b rounded down to an integer: the number of
\* positive integers whose square does not exceed the squared length
FloorDist(a, b) ==
    LET d2 == (a[1] - b[1]) * (a[1] - b[1]) + (a[2] - b[2]) * (a[2] - b[2])
    IN  Cardinality({k \in 1..d2 : k * k <= d2})

\* the canonical corners of a point set with unique extremes, whatever the
\* order in which the points were given
CornerTL(p) == CHOOSE q \in PointSet(p) :
                    \A r \in PointSet(p) : SumOf(q) <= SumOf(r)

CornerBR(p) == CHOOSE q \in PointSet(p) :
                    \A r \in PointSet(p) : SumOf(q) >= SumOf(r)

CornerTR(p) == CHOOSE q \in PointSet(p) :
                    \A r \in PointSet(p) : DiffOf(q) <= DiffOf(r)

CornerBL(p) == CHOOSE q \in PointSet(p) :
                    \A r \in PointSet(p) : DiffOf(q) >= DiffOf(r)

ClaimedWidth(p) ==
    Max(FloorDist(CornerBR(p), CornerBL(p)), FloorDist(CornerTR(p), CornerTL(p)))

ClaimedHeight(p) ==
    Max(FloorDist(CornerTR(p), CornerBR(p)), FloorDist(CornerTL(p), CornerBL(p)))

C5_AsStated ==
    (warp.ok /\ Len(pts) = NumCorners) =>
        (warp.val.w >= 1 /\ warp.val.h >= 1)

---------------------------------------------------------------------------
(* SpecClamp: clamp_size applied to bounded images, references, factors *)

\* the values of max_scale_factor the slider can give that are tried
MaxScalePcts == {100, DefaultMaxScalePct, 200}

ClampInit ==
    /\ \E w, h \in 1..MaxClampDim : cimg = SourceImage(w, h)
    /\ cref \in 1..MaxClampRef
    /\ cpct \in MaxScalePcts
    /\ cout = NoCall
    /\ cagain = NoCall
    /\ GeomIdle
    /\ DetectIdle
    /\ PipeIdle
    /\ UiIdle

\* a caller calls clamp_size(img, ref, max_scale_factor, 0.75)
ClampSize ==
    /\ ~cout.called
    /\ cout' = clamp_size(cimg, cref, cpct, MinScalePct)
    /\ UNCHANGED <<cimg, cref, cpct, cagain, gvars, dvars, pvars, uvars>>

\* the caller calls clamp_size again, on the image the first call
\* returned, with the same reference and factors
ClampSizeAgain ==
    /\ cout.ok
    /\ ~cagain.called
    /\ cagain' = clamp_size(cout.val, cref, cpct, MinScalePct)
    /\ UNCHANGED <<cimg, cref, cpct, cout, gvars, dvars, pvars, uvars>>

ClampNext ==
    \/ ClampSize
    \/ ClampSizeAgain

SpecClamp == ClampInit /\ [][ClampNext]_vars

\* the bounds as the prose gives them: reference x factor, truncated
ClaimedMaxAllowed(ref, pct) == (ref * pct) \div PercentDen

ClaimedMinAllowed(ref) == (ref * MinScalePct) \div PercentDen

LargestDim(img) == Max(img.w, img.h)

\* C9 as stated: if the largest dimension exceeds r x fmax the result's
\* largest dimension is exactly that bound; if it is below r x fmin it is
\* exactly that bound; otherwise the image is returned unchanged.
C9_AsStated ==
    cout.ok =>
        /\ LargestDim(cimg) > ClaimedMaxAllowed(cref, cpct)
              => LargestDim(cout.val) = ClaimedMaxAllowed(cref, cpct)
        /\ LargestDim(cimg) < ClaimedMinAllowed(cref)
              => LargestDim(cout.val) = ClaimedMinAllowed(cref)
        /\ (/\ LargestDim(cimg) <= ClaimedMaxAllowed(cref, cpct)
            /\ LargestDim(cimg) >= ClaimedMinAllowed(cref))
              => cout.val = cimg

---------------------------------------------------------------------------
(* SpecDetect: auto_detect_corners on bounded images and contour lists *)

\* the simplified polygons tried: a triangle, the unit square out of the
\* canonical order, a pentagon
ApproxPolys ==
    { << <<0, 0>>, <<1, 0>>, <<0, 1>> >>,
      << <<1, 1>>, <<0, 1>>, <<1, 0>>, <<0, 0>> >>,
      << <<2, 1>>, <<0, 1>>, <<2, 0>>, <<0, 0>> >>,
      << <<0, 0>>, <<1, 0>>, <<1, 1>>, <<0, 1>>, <<1, 0>> >> }

\* the candidates cv2 can find in a working image: the contour lies
\* inside the image.  An area equal to the tenth of the working image is
\* left out: the comparison is then decided by the rounding of
\* 0.1 * h * w.
Candidates(small) ==
    { c \in [area2 : 0..MaxArea2, approx : ApproxPolys] :
        /\ c.area2 <= 2 * small.h * small.w
        /\ MinAreaInv * c.area2 # 2 * small.h * small.w
        /\ \A k \in 1..Len(c.approx) :
              c.approx[k][1] < small.w /\ c.approx[k][2] < small.h }

\* the working limits tried: half of the largest image and the largest
DetectLimits == {MaxDetectDim \div 2, MaxDetectDim}

DetectInit ==
    /\ \E w, h \in 1..MaxDetectDim : dimg = [w |-> w, h |-> h]
    /\ dlimit \in DetectLimits
    /\ \E n \in 0..MaxContours :
          contours \in [1..n -> Candidates(SmallSize(dimg, dlimit))]
    /\ det = NoCall
    /\ GeomIdle
    /\ ClampIdle
    /\ PipeIdle
    /\ UiIdle

\* a caller calls auto_detect_corners(img, downscale=dlimit)
AutoDetect ==
    /\ ~det.called
    /\ det' = auto_detect_corners(dimg, dlimit, contours)
    /\ UNCHANGED <<dimg, dlimit, contours, gvars, cvars, pvars, uvars>>

DetectNext == AutoDetect

SpecDetect == DetectInit /\ [][DetectNext]_vars

\* a candidate qualifies: its area is at least a tenth of the area of the
\* working image and its simplified polygon has exactly four vertices
Qualifies(c) ==
    /\ MinAreaInv * c.area2
          >= 2 * SmallSize(dimg, dlimit).h * SmallSize(dimg, dlimit).w
    /\ Len(c.approx) = NumCorners

\* C6: when no contour candidate qualifies (no contour at all included),
\* auto_detect_corners returns success = false with exactly the corners
\* (0,0), (w-1,0), (w-1,h-1), (0,h-1) of the original image, in that order.
C6_Fallback ==
    (det.ok /\ \A i \in 1..Len(contours) : ~Qualifies(contours[i])) =>
        /\ det.val.success = FALSE
        /\ det.val.den = 1
        /\ det.val.corners = << <<0, 0>>,
                                <<dimg.w - 1, 0>>,
                                <<dimg.w - 1, dimg.h - 1>>,
                                <<0, dimg.h - 1>> >>

\* a downscaled image with candidates none of which qualifies: one has
\* four vertices and too small an area, another the area and not four
\* vertices
C6_Witness ==
    /\ det.ok
    /\ ~det.val.success
    /\ Downscaled(dimg, dlimit)
    /\ SmallSize(dimg, dlimit) # [w |-> dimg.w, h |-> dimg.h]
    /\ \E i, j \in 1..Len(contours) :
          /\ Len(contours[i].approx) = NumCorners
          /\ AreaTooSmall(contours[i], SmallSize(dimg, dlimit))
          /\ Len(contours[j].approx) # NumCorners
          /\ ~AreaTooSmall(contours[j], SmallSize(dimg, dlimit))

\* the qualifying candidates that come first when the candidates are taken
\* by descending area, those of equal area in the order given
BestQualifying ==
    {b \in 1..Len(contours) :
        /\ Qualifies(contours[b])
        /\ \A j \in 1..Len(contours) :
              Qualifies(contours[j]) =>
                  \/ contours[j].area2 < contours[b].area2
                  \/ contours[j].area2 = contours[b].area2 /\ j >= b}

\* a polygon of the working image over the denominator of the result
InResultUnits(poly) ==
    [k \in 1..Len(poly) |->
        IF dlimit < Max(dimg.h, dimg.w)
        THEN <<poly[k][1] * Max(dimg.h, dimg.w),
               poly[k][2] * Max(dimg.h, dimg.w)>>
        ELSE poly[k]]

WorkingArea ==
    IF dlimit < Max(dimg.h, dimg.w)
    THEN RoundMulDiv(dimg.w, dlimit, Max(dimg.h, dimg.w))
            * RoundMulDiv(dimg.h, dlimit, Max(dimg.h, dimg.w))
    ELSE dimg.w * dimg.h

\* C19: auto_detect_corners downscales only when the largest dimension of
\* the image exceeds the working limit; the area threshold is taken
\* against the area of the working image; and on success every returned
\* coordinate is a coordinate detected in the working image divided by
\* scale = limit / max(h, w), or that coordinate itself when the image was
\* not downscaled.
C19_WorkingScale ==
    det.ok =>
        /\ det.val.success <=>
              \E i \in 1..Len(contours) :
                  /\ Len(contours[i].approx) = NumCorners
                  /\ MinAreaInv * contours[i].area2 >= 2 * WorkingArea
        /\ det.val.success =>
              \A b \in BestQualifying :
                  \A k \in 1..NumCorners :
                      \E v \in PointSet(contours[b].approx) :
                          \A c \in 1..2 :
                              IF dlimit < Max(dimg.h, dimg.w)
                              THEN det.val.corners[k][c] * dlimit
                                      = v[c] * Max(dimg.h, dimg.w) * det.val.den
                              ELSE det.val.corners[k][c] = v[c] * det.val.den

\* a detection on a downscaled image that succeeded with a corner away
\* from the origin, and one candidate too small for the working image
C19_Witness ==
    /\ det.ok
    /\ det.val.success
    /\ dlimit < Max(dimg.h, dimg.w)
    /\ \E k \in 1..NumCorners : det.val.corners[k][1] > dlimit
    /\ \E i \in 1..Len(contours) :
          /\ Len(contours[i].approx) = NumCorners
          /\ MinAreaInv * contours[i].area2 < 2 * WorkingArea

---------------------------------------------------------------------------
(* SpecPipe: full_pipeline, statement by statement *)

\* the corner sets tried: the rectangle (0,0)-(x,y), its corners given out
\* of the canonical order; x = 0 or y = 0 collapses it, and the corners
\* may lie outside the image
PipeCorners ==
    { << <<x, y>>, <<0, 0>>, <<x, 0>>, <<0, y>> >> :
          x \in 0..MaxPipeX, y \in 0..MaxPipeY }

\* the source images tried: landscape strips and one portrait strip
PipeImages ==
    { SourceImage(n, 1) : n \in 1..MaxPipeDim }
        \cup { SourceImage(1, MaxPipeDim) }

\* the keyword arguments tried; ref_max_dim = 0 stands for None
PipeOptions ==
    [denoise : BOOLEAN, denoise_strength : {10},
     clahe : BOOLEAN, clahe_clip : {20},
     sharpen : BOOLEAN, sharpen_amount : {18},
     clamp_enabled : BOOLEAN, ref_max_dim : {0, 1},
     max_scale_pct : MaxScalePcts]

PipeInit ==
    /\ pimg \in PipeImages
    /\ pcorn \in PipeCorners
    /\ popt \in PipeOptions
    /\ pc = "warp"
    /\ result = SourceImage(0, 0)
    /\ pref = 0
    /\ plog = <<>>
    /\ GeomIdle
    /\ DetectIdle
    /\ ClampIdle
    /\ UiIdle

\* the stages with sharpen placed before the local contrast
StageAfterSwapped(stage) ==
    CASE stage = "warp" -> "denoise"
      [] stage = "denoise" -> "sharpen"
      [] stage = "sharpen" -> "clahe"
      [] stage = "clahe" -> "clamp"
      [] OTHER -> "done"

\* the order of the statements of full_pipeline: the statement that
\* follows each stage
StageAfter(stage) ==
    CASE stage = "warp" -> "denoise"
      [] stage = "denoise" -> "clahe"
      [] stage = "clahe" -> "sharpen"
      [] stage = "sharpen" -> "clamp"
      [] OTHER -> "done"

\* result = warp_perspective(img, pts)
\* ref = ref_max_dim or max(img.shape[:2])
PipeWarp ==
    /\ pc = "warp"
    /\ result' = warp_perspective(pimg, pcorn).val
    /\ pref' = IF popt.ref_max_dim # 0 THEN popt.ref_max_dim
               ELSE Max(pimg.h, pimg.w)
    /\ plog' = Append(plog, [fn |-> "warp_perspective", par |-> 0])
    /\ pc' = StageAfter("warp")
    /\ UNCHANGED <<pimg, pcorn, popt, gvars, dvars, cvars, uvars>>

\* if denoise: result = apply_denoise(result, denoise_strength)
PipeDenoise ==
    /\ pc = "denoise"
    /\ IF popt.denoise
       THEN /\ result' = apply_denoise(result, popt.denoise_strength)
            /\ plog' = Append(plog, [fn |-> "apply_denoise",
                                     par |-> popt.denoise_strength])
       ELSE UNCHANGED <<result, plog>>
    /\ pc' = StageAfter("denoise")
    /\ UNCHANGED <<pimg, pcorn, popt, pref, gvars, dvars, cvars, uvars>>

\* if clahe: result = apply_clahe(result, clahe_clip)
PipeClahe ==
    /\ pc = "clahe"
    /\ IF popt.clahe
       THEN /\ result' = apply_clahe(result, popt.clahe_clip)
            /\ plog' = Append(plog, [fn |-> "apply_clahe",
                                     par |-> popt.clahe_clip])
       ELSE UNCHANGED <<result, plog>>
    /\ pc' = StageAfter("clahe")
    /\ UNCHANGED <<pimg, pcorn, popt, pref, gvars, dvars, cvars, uvars>>

\* if sharpen: result = apply_sharpen(result, sharpen_amount)
PipeSharpen ==
    /\ pc = "sharpen"
    /\ IF popt.sharpen
       THEN /\ result' = apply_sharpen(result, popt.sharpen_amount)
            /\ plog' = Append(plog, [fn |-> "apply_sharpen",
                                     par |-> popt.sharpen_amount])
       ELSE UNCHANGED <<result, plog>>
    /\ pc' = StageAfter("sharpen")
    /\ UNCHANGED <<pimg, pcorn, popt, pref, gvars, dvars, cvars, uvars>>

\* the guard of the last stage, with the test of clamp_enabled dropped
ClampStageAlways == TRUE

\* if clamp_enabled:
ClampStageEnabled == popt.clamp_enabled

\* if clamp_enabled: result = clamp_size(result, ref, max_scale_factor,
\* min_scale_factor); return result.  An exception of clamp_size leaves
\* full_pipeline without a result.
PipeClamp ==
    /\ pc = "clamp"
    /\ IF ClampStageEnabled
       THEN LET o == clamp_size(result, pref, popt.max_scale_pct,
                                MinScalePct)
            IN  /\ plog' = Append(plog, [fn |-> "clamp_size",
                                         par |-> popt.max_scale_pct])
                /\ IF o.ok
                   THEN result' = o.val /\ pc' = "done"
                   ELSE UNCHANGED result /\ pc' = "raised"
       ELSE /\ pc' = "done"
            /\ UNCHANGED <<result, plog>>
    /\ UNCHANGED <<pimg, pcorn, popt, pref, gvars, dvars, cvars, uvars>>

PipeNext ==
    \/ PipeWarp
    \/ PipeDenoise
    \/ PipeClahe
    \/ PipeSharpen
    \/ PipeClamp

SpecPipe == PipeInit /\ [][PipeNext]_vars

AllDisabled ==
    /\ ~popt.denoise
    /\ ~popt.clahe
    /\ ~popt.sharpen
    /\ ~popt.clamp_enabled

\* C7: full_pipeline with denoise, clahe, sharpen and clamp_enabled all
\* false returns exactly the image warp_perspective produces from the
\* same image and corners: no stage is called, the size does not change,
\* and the call does not raise.
C7_AllDisabledIsWarp ==
    AllDisabled =>
        /\ pc # "raised"
        /\ pc = "done" =>
              /\ result = warp_perspective(pimg, pcorn).val
              /\ plog = << [fn |-> "warp_perspective", par |-> 0] >>

\* full_pipeline has returned with every option off, on a warped image
\* that clamp_size would have resized
C7_Witness ==
    /\ pc = "done"
    /\ AllDisabled
    /\ result.w >= 2
    /\ clamp_size(result, pref, popt.max_scale_pct, MinScalePct).ok
    /\ clamp_size(result, pref, popt.max_scale_pct, MinScalePct).val # result

\* the four gated stages in the fixed order, each with its toggle, the
\* function it calls and the parameter it passes
GatedStages ==
    << [on |-> popt.denoise, fn |-> "apply_denoise", op |-> "denoise",
        par |-> popt.denoise_strength],
       [on |-> popt.clahe, fn |-> "apply_clahe", op |-> "clahe",
        par |-> popt.clahe_clip],
       [on |-> popt.sharpen, fn |-> "apply_sharpen", op |-> "sharpen",
        par |-> popt.sharpen_amount],
       [on |-> popt.clamp_enabled, fn |-> "clamp_size", op |-> "clamp",
        par |-> popt.max_scale_pct] >>

StageIsOn(st) == st.on

EnabledStages == SelectSeq(GatedStages, StageIsOn)

EnabledFilters == SelectSeq(SubSeq(GatedStages, 1, 3), StageIsOn)

\* C8: for each of the 16 combinations of the toggles, when full_pipeline
\* ends (returning, or raising in the size clamp) it has called, after
\* warp_perspective, exactly the enabled stages, each once, in the order
\* denoise, local contrast, sharpen, size clamp, each with its own
\* parameter; and the enabled filters are what was applied to the warped
\* image, in that order.
C8_StageOrder ==
    pc \in {"done", "raised"} =>
        /\ plog = << [fn |-> "warp_perspective", par |-> 0] >>
                    \o [i \in 1..Len(EnabledStages) |->
                            [fn |-> EnabledStages[i].fn,
                             par |-> EnabledStages[i].par]]
        /\ SubSeq(result.ops, 1, 1 + Len(EnabledFilters))
              = << [op |-> "warp", par |-> 0] >>
                    \o [i \in 1..Len(EnabledFilters) |->
                            [op |-> EnabledFilters[i].op,
                             par |-> EnabledFilters[i].par]]

\* full_pipeline has returned with the local contrast skipped between two
\* enabled stages, and the size clamp has resized the result
C8_Witness ==
    /\ pc = "done"
    /\ popt.denoise /\ ~popt.clahe /\ popt.sharpen /\ popt.clamp_enabled
    /\ Len(plog) = 4
    /\ Len(result.ops) = 4

\* C10 as stated: with clamp_enabled true and no explicit ref_max_dim, the
\* reference is the largest dimension M of the original image, and the
\* largest dimension of the returned image lies between M x 0.75 and
\* M x maxScaleFactor, both truncated to integers, whatever the corner set
\* and the enhancement toggles are.
C10_AsStated ==
    (pc = "done" /\ popt.clamp_enabled /\ popt.ref_max_dim = 0) =>
        /\ pref = LargestDim(pimg)
        /\ LargestDim(result) >= ClaimedMinAllowed(LargestDim(pimg))
        /\ LargestDim(result)
              <= ClaimedMaxAllowed(LargestDim(pimg), popt.max_scale_pct)

---------------------------------------------------------------------------
(* apply_sharpen on one channel value (SpecSharpen) *)

\* the slider value is divided by 10.0 to give the amount
TenthDen == 10

\* the largest value of a np.uint8 channel
PixelMax == 255

\* the values taken for the blurred image
BlurSamples == {0, 1, 100, 128, 254, PixelMax}

\* the amounts of the sharpen slider that are whole numbers: 1.0, 2.0, 3.0
SharpenAmounts == {10, 20, 30}

\* cvRound: the nearest integer, halves to the even one
RoundTenths(n) ==
    LET q == n \div TenthDen
        r == n % TenthDen
    IN  IF 2 * r < TenthDen THEN q
        ELSE IF 2 * r > TenthDen THEN q + 1
        ELSE IF q % 2 = 0 THEN q ELSE q + 1

\* saturate_cast<uchar>
Saturate(v) == Min(PixelMax, Max(0, v))

\* addWeighted with the two weights exchanged
cv2_addWeighted_swapped(src1, alpha, src2, beta) ==
    Saturate(RoundTenths(beta * src1 + alpha * src2))

\* cv2.addWeighted(src1, alpha, src2, beta, 0) on uint8 values, the
\* weights in tenths
cv2_addWeighted(src1, alpha, src2, beta) ==
    Saturate(RoundTenths(alpha * src1 + beta * src2))

\* np.clip(sharpened, 0, 255).astype(np.uint8)
np_clip(v) == Min(PixelMax, Max(0, v))

\* apply_sharpen at one place of the image: value is the channel value of
\* img there, blurred the one of cv2.GaussianBlur(img, (0, 0), sigma)
apply_sharpen_value(value, blurred, amount) ==
    Returned(np_clip(cv2_addWeighted(value, amount, blurred,
                                     TenthDen - amount)))

SharpenInit ==
    /\ spix \in 0..PixelMax
    /\ sblur \in BlurSamples
    /\ samt \in SharpenAmounts
    /\ sout = NoCall
    /\ CoreIdle
    /\ DisplayIdle
    /\ DebounceIdle
    /\ AppIdle

\* apply_sharpen(img, amount)
ApplySharpen ==
    /\ ~sout.called
    /\ sout' = apply_sharpen_value(spix, sblur, samt)
    /\ UNCHANGED <<spix, sblur, samt, corevars, yvars, tvars, avars>>

SharpenNext ==
    \/ ApplySharpen

SpecSharpen == SharpenInit /\ [][SharpenNext]_vars

\* C11: apply_sharpen with amount = 1 returns, for every channel value and
\* whatever the blurred image is, the value it was given: the blurred term
\* has weight 0.
C11_SharpenIdentity ==
    (sout.ok /\ samt = TenthDen) => sout.val = spix

\* apply_sharpen has run with amount 1 where the blurred image differs
\* from the image
C11_Witness ==
    /\ sout.ok
    /\ samt = TenthDen
    /\ sblur # spix
    /\ sout.val = spix

---------------------------------------------------------------------------
(* get_display_image (SpecDisplay) *)

\* the largest value of max_dim
MaxDisplayLimit == 15

\* the longest and the shortest side of the images displayed
MaxDisplaySide == 26

MaxDisplayShort == 3

\* get_display_image(img, max_dim)
get_display_image(img, max_dim) ==
    LET h == img.h
        w == img.w
    IN  IF Max(h, w) <= max_dim
        THEN Returned(img)
        ELSE cv2_resize(img, TruncMulDiv(w, max_dim, Max(h, w)),
                             TruncMulDiv(h, max_dim, Max(h, w)),
                             "INTER_AREA")

DisplayLimits == {MaxDisplayLimit - 2, MaxDisplayLimit}

DisplayImages ==
    {SourceImage(a, b) : a \in 1..MaxDisplaySide, b \in 1..MaxDisplayShort}
        \cup {SourceImage(b, a) : a \in 1..MaxDisplaySide,
                                  b \in 1..MaxDisplayShort}

DisplayInit ==
    /\ yimg \in DisplayImages
    /\ ymax \in DisplayLimits
    /\ yout = NoCall
    /\ CoreIdle
    /\ SharpenIdle
    /\ DebounceIdle
    /\ AppIdle

\* a caller calls get_display_image(img, max_dim)
GetDisplayImage ==
    /\ ~yout.called
    /\ yout' = get_display_image(yimg, ymax)
    /\ UNCHANGED <<yimg, ymax, corevars, svars, tvars, avars>>

DisplayNext ==
    \/ GetDisplayImage

SpecDisplay == DisplayInit /\ [][DisplayNext]_vars

\* C12 as stated: when max(h, w) <= max_dim get_display_image returns the
\* very image it was given; otherwise the image it returns has its largest
\* dimension equal to max_dim and neither dimension larger than the
\* input's.
C12_AsStated ==
    yout.ok =>
        IF Max(yimg.h, yimg.w) <= ymax
        THEN yout.val = yimg
        ELSE /\ LargestDim(yout.val) = ymax
             /\ yout.val.w <= yimg.w
             /\ yout.val.h <= yimg.h

---------------------------------------------------------------------------
(* The preview debounce timer of MainWindow (SpecDebounce) *)

\* self._preview_debounce.start(200)
DebounceMs == 200

\* the step of the clock, in milliseconds
TickMs == 50

\* the most change events counted in one burst
MaxBurst == 3

\* what _update_preview can find: no current item, an item whose file
\* does not load, a viewer without corners, or an item with corners
CurrentItems == {"none", "unloadable", "no_corners", "ready"}

\* _update_preview up to its call of full_pipeline: 1 when it reaches the
\* call, 0 when it returns or raises before
PreviewPipelineRuns(cur) == IF cur = "ready" THEN 1 ELSE 0

\* the timer has run out and its timeout is the next event handled
TimerDue == tactive /\ tleft <= 0

\* a timer that is started only when it is not running
SchedulePreviewNoRestart ==
    /\ tactive' = TRUE
    /\ tleft' = IF tactive THEN tleft ELSE DebounceMs

\* _schedule_preview_update: stop() then start(200)
SchedulePreview ==
    /\ tactive' = TRUE
    /\ tleft' = DebounceMs

\* the bookkeeping of bursts: an event less than 200 ms after the last
\* one continues the burst, a later one begins a new burst
CountEvent ==
    IF bevents > 0 /\ tquiet < DebounceMs
    THEN /\ bevents' = bevents + 1
         /\ UNCHANGED <<bcalls, bpipe>>
    ELSE /\ bevents' = 1
         /\ bcalls' = 0
         /\ bpipe' = 0

DebounceInit ==
    /\ tactive = FALSE
    /\ tleft = 0
    /\ tquiet = 0
    /\ tchk \in BOOLEAN
    /\ tcur \in CurrentItems
    /\ bevents = 0
    /\ bcalls = 0
    /\ bpipe = 0
    /\ CoreIdle
    /\ SharpenIdle
    /\ DisplayIdle
    /\ AppIdle

\* mouseMoveEvent while a handle is dragged: corners_changed is emitted,
\* connected to _schedule_preview_update
CornerDragged ==
    /\ ~TimerDue
    /\ tcur = "ready"
    /\ bevents < MaxBurst \/ tquiet >= DebounceMs
    /\ SchedulePreview
    /\ CountEvent
    /\ tquiet' = 0
    /\ UNCHANGED <<tchk, tcur, corevars, svars, yvars, avars>>

\* a checkbox is toggled: _on_options_changed
CheckboxToggled ==
    /\ ~TimerDue
    /\ bevents < MaxBurst \/ tquiet >= DebounceMs
    /\ tchk' = ~tchk
    /\ SchedulePreview
    /\ CountEvent
    /\ tquiet' = 0
    /\ UNCHANGED <<tcur, corevars, svars, yvars, avars>>

\* a slider is moved: its handler checks the checkbox (whose toggled
\* signal calls _on_options_changed when it was unchecked) and then calls
\* _on_options_changed itself
SliderMoved ==
    /\ ~TimerDue
    /\ bevents < MaxBurst \/ tquiet >= DebounceMs
    /\ tchk' = TRUE
    /\ SchedulePreview
    /\ CountEvent
    /\ tquiet' = 0
    /\ UNCHANGED <<tcur, corevars, svars, yvars, avars>>

\* time passes with no event
Tick ==
    /\ ~TimerDue
    /\ tquiet < 2 * DebounceMs
    /\ tquiet' = tquiet + TickMs
    /\ tleft' = IF tactive THEN tleft - TickMs ELSE tleft
    /\ UNCHANGED <<tactive, tchk, tcur, bevents, bcalls, bpipe,
                   corevars, svars, yvars, avars>>

\* the single-shot timer times out: _update_preview is called
Timeout ==
    /\ TimerDue
    /\ tactive' = FALSE
    /\ bcalls' = bcalls + 1
    /\ bpipe' = bpipe + PreviewPipelineRuns(tcur)
    /\ UNCHANGED <<tleft, tquiet, tchk, tcur, bevents, corevars, svars, yvars, avars>>

\* the queue changes between two bursts (files added, removed, selected)
CurrentChanged ==
    /\ ~tactive
    /\ \E c \in CurrentItems :
          /\ c # tcur
          /\ tcur' = c
    /\ bevents' = 0
    /\ bcalls' = 0
    /\ bpipe' = 0
    /\ UNCHANGED <<tactive, tleft, tquiet, tchk, corevars, svars, yvars, avars>>

DebounceNext ==
    \/ CornerDragged
    \/ CheckboxToggled
    \/ SliderMoved
    \/ Tick
    \/ Timeout
    \/ CurrentChanged

SpecDebounce == DebounceInit /\ [][DebounceNext]_vars

\* the timer has settled the burst: events were seen and none is awaited
BurstSettled == bevents > 0 /\ ~tactive

\* C13 as stated: every burst of change events ends with exactly one
\* pipeline run made by the debounce timer.
C13_AsStated ==
    BurstSettled => bpipe = 1

\* C13: for a burst of corner-drag, checkbox or slider events each less
\* than 200 ms after the one before, the debounce timer calls
\* _update_preview exactly once, not before 200 ms have passed with no
\* further change and never while changes keep arriving; that call runs
\* the pipeline once when a queue item with corners is current, and not at
\* all when there is no current item, its file does not load or the viewer
\* has no corners.
C13_Debounced ==
    /\ tactive => bcalls = 0
    /\ BurstSettled =>
          /\ bcalls = 1
          /\ tquiet >= DebounceMs
          /\ bpipe = IF tcur = "ready" THEN 1 ELSE 0
    /\ bpipe <= bcalls
    /\ TimerDue => tquiet >= DebounceMs

\* a burst of several events, the last one a slider move, has been
\* settled by the timer with a pipeline run
C13_Witness ==
    /\ BurstSettled
    /\ bevents = MaxBurst
    /\ tchk
    /\ bcalls = 1
    /\ bpipe = 1
    /\ tquiet = DebounceMs

---------------------------------------------------------------------------
(* The files on disk and the image viewer (SpecApp) *)

\* DISPLAY_MAX_DIM
DISPLAY_MAX_DIM == 1200

\* the default of the argument downscale of auto_detect_corners
DefaultDownscale == 800

\* str.lower() on the characters that occur in the file names of the model
LowerChar(ch) ==
    CASE ch = "T" -> "t"
      [] ch = "I" -> "i"
      [] ch = "F" -> "f"
      [] OTHER -> ch

\* Path.suffix.lower(), a suffix being the sequence of its characters
Lower(suffix) == [i \in 1..Len(suffix) |-> LowerChar(suffix[i])]

SUPPORTED_EXTENSIONS ==
    { <<".", "j", "p", "g">>,
      <<".", "j", "p", "e", "g">>,
      <<".", "p", "n", "g">>,
      <<".", "t", "i", "f", "f">>,
      <<".", "t", "i", "f">> }

\* the files of the input directory.  loads: Image.open reads the file;
\* w, h: the size of its image; found: the contours cv2.findContours
\* returns on its working image.
\*   1  a.jpg  1600 x 1200, larger than the display and the working limits,
\*             with a quadrilateral contour
\*   2  b.gif  800 x 600, within both limits, without any contour; Pillow
\*             reads GIF files
\*   3  c.TIF  a damaged file
Disk == {1, 2, 3}

FileSuffix(f) ==
    CASE f = 1 -> <<".", "j", "p", "g">>
      [] f = 2 -> <<".", "g", "i", "f">>
      [] OTHER -> <<".", "T", "I", "F">>

FileLoads(f) == f \in {1, 2}

FileImage(f) ==
    IF f = 1 THEN [w |-> 1600, h |-> 1200, ops |-> <<>>]
    ELSE [w |-> 800, h |-> 600, ops |-> <<>>]

FileContours(f) ==
    IF f = 1
    THEN << [area2 |-> 160000,
             approx |-> << <<400, 200>>, <<0, 200>>, <<400, 0>>, <<0, 0>> >>] >>
    ELSE <<>>

\* load_image_with_meta(path)
load_image_with_meta(f) ==
    IF FileLoads(f)
    THEN Returned([img |-> FileImage(f), meta |-> f])
    ELSE Raised("cannot identify image file")

RECURSIVE GCD(_, _)
GCD(a, b) == IF b = 0 THEN a ELSE GCD(b, a % b)

RECURSIVE GCDOfAll(_, _)
GCDOfAll(p, g) ==
    IF Len(p) = 0 THEN g
    ELSE GCDOfAll(Tail(p), GCD(GCD(Head(p)[1], Head(p)[2]), g))

\* the same float coordinates, written over the smallest denominator
Reduced(p, den) ==
    LET g == GCDOfAll(p, den)
    IN  [pts |-> [k \in 1..Len(p) |-> <<p[k][1] \div g, p[k][2] \div g>>],
         den |-> den \div g]

\* corners * factor, for a positive factor num / den
Scaled(corners, num, den) ==
    Reduced([k \in 1..Len(corners.pts) |->
                <<corners.pts[k][1] * num, corners.pts[k][2] * num>>],
            corners.den * den)

\* no corners: self._corners is None
NoCorners == [pts |-> <<>>, den |-> 0]

\* the viewer before any image is set
EmptyViewer ==
    [file |-> 0, image |-> [w |-> 0, h |-> 0, ops |-> <<>>],
     pixmap |-> [w |-> 0, h |-> 0],
     auto_failed |-> FALSE, corners |-> NoCorners]

\* ImageViewerWidget.set_image that keeps the flag of the image before
set_image_keep_flag(vw, file, img, corners, auto_failed, show_corners) ==
    LET display == get_display_image(img, DISPLAY_MAX_DIM)
    IN  IF ~display.ok THEN Raised(display.err)
        ELSE Returned(
            [file |-> file, image |-> img,
             pixmap |-> [w |-> display.val.w, h |-> display.val.h],
             auto_failed |-> vw.auto_failed,
             corners |->
                IF corners # NoCorners /\ show_corners
                THEN Scaled(corners, LargestDim(display.val), LargestDim(img))
                ELSE IF show_corners
                THEN [pts |-> FullImageCorners(display.val), den |-> 1]
                ELSE NoCorners])

\* ImageViewerWidget.set_image(img_bgr, corners, auto_failed, show_corners)
\* on the viewer vw: file names the file img_bgr was read from, 0 for the
\* blank image
set_image(vw, file, img, corners, auto_failed, show_corners) ==
    LET display == get_display_image(img, DISPLAY_MAX_DIM)
    IN  IF ~display.ok THEN Raised(display.err)
        ELSE Returned(
            [file |-> file, image |-> img,
             pixmap |-> [w |-> display.val.w, h |-> display.val.h],
             auto_failed |-> auto_failed,
             corners |->
                IF corners # NoCorners /\ show_corners
                THEN Scaled(corners, LargestDim(display.val), LargestDim(img))
                ELSE IF show_corners
                THEN [pts |-> FullImageCorners(display.val), den |-> 1]
                ELSE NoCorners])

\* get_corners_in_original_scale that leaves the corners as displayed
get_corners_in_display_scale(vw) ==
    IF vw.corners = NoCorners \/ vw.file = 0
    THEN Returned(NoCorners)
    ELSE Returned(vw.corners)

\* ImageViewerWidget.get_corners_in_original_scale()
get_corners_in_original_scale(vw) ==
    IF vw.corners = NoCorners \/ vw.file = 0
    THEN Returned(NoCorners)
    ELSE LET display == get_display_image(vw.image, DISPLAY_MAX_DIM)
         IN  IF ~display.ok THEN Raised(display.err)
             ELSE Returned(Scaled(vw.corners, LargestDim(vw.image),
                                  LargestDim(display.val)))

---------------------------------------------------------------------------
(* MainWindow: the queue, loading, saving (SpecApp) *)

\* the calls of _load_current_image that can nest before the interpreter
\* raises RecursionError
MaxDepth == 5

\* QueueItem(path=p)
QueueItem(p) == [path |-> p, status |-> "pending", error_message |-> "None"]

Paths(q) == {q[i].path : i \in 1..Len(q)}

\* _add_paths_to_queue that appends every path it is given
AppendedAll(q, ps) == q \o [k \in 1..Len(ps) |-> QueueItem(ps[k])]

\* the loop of _add_paths_to_queue
RECURSIVE Appended(_, _)
Appended(q, ps) ==
    IF Len(ps) = 0 THEN q
    ELSE Appended(IF Head(ps) \in Paths(q) THEN q
                  ELSE Append(q, QueueItem(Head(ps))),
                  Tail(ps))

\* files.sort(), and the order in which a dialog or a drop lists files
RECURSIVE SortedFiles(_)
SortedFiles(S) ==
    IF S = {} THEN <<>>
    ELSE LET m == CHOOSE x \in S : \A y \in S : x <= y
         IN  <<m>> \o SortedFiles(S \ {m})

\* _refresh_queue_list: the list is rebuilt and the current row set again
\* when the index is that of an item
RefreshedRow(q, idx) == IF 0 <= idx /\ idx < Len(q) THEN idx ELSE -1

\* an except block that marks every item of the queue
MarkErrorAll(q, idx, msg) ==
    [k \in 1..Len(q) |->
        [q[k] EXCEPT !.status = "error", !.error_message = msg]]

\* an except block that marks the item DONE
MarkErrorAsDone(q, idx, msg) ==
    [q EXCEPT ![idx + 1].status = "done", ![idx + 1].error_message = msg]

\* item.status = QueueStatus.ERROR; item.error_message = str(e)
MarkError(q, idx, msg) ==
    [q EXCEPT ![idx + 1].status = "error", ![idx + 1].error_message = msg]

\* item.status = QueueStatus.DONE
MarkDone(q, idx) == [q EXCEPT ![idx + 1].status = "done"]

\* the call full_pipeline(img_bgr, corners, ..., ref_max_dim=max(shape))
\* and so the image it returns
PipelineCall(f, img, corners) ==
    [fn |-> "full_pipeline", file |-> f, img |-> img, corners |-> corners,
     ref_max_dim |-> LargestDim(img)]

NoPreview == [fn |-> "none"]

\* _update_preview: what _preview_viewer shows when it returns
UpdatedPreview(q, idx, vw, old) ==
    IF idx < 0 \/ idx >= Len(q) THEN old
    ELSE LET r == load_image_with_meta(q[idx + 1].path)
             c == get_corners_in_original_scale(vw)
         IN  IF ~r.ok \/ ~c.ok THEN old
             ELSE IF c.val = NoCorners THEN old
             ELSE PipelineCall(q[idx + 1].path, r.val.img, c.val)

\* the try block of _load_current_image and of _run_auto on file f:
\* loaded, detected and shown, or the exception raised
Shown(f, vw) ==
    LET r == load_image_with_meta(f)
    IN  IF ~r.ok THEN [ok |-> FALSE, err |-> r.err, meta |-> 0, vw |-> vw]
        ELSE LET dc == auto_detect_corners(r.val.img, DefaultDownscale,
                                            FileContours(f))
             IN  IF ~dc.ok
                 THEN [ok |-> FALSE, err |-> dc.err, meta |-> f, vw |-> vw]
                 ELSE LET sv == set_image(vw, f, r.val.img,
                                          Reduced(dc.val.corners, dc.val.den),
                                          ~dc.val.success, TRUE)
                      IN  IF ~sv.ok
                          THEN [ok |-> FALSE, err |-> sv.err, meta |-> f,
                                vw |-> [vw EXCEPT !.file = f,
                                                  !.image = r.val.img,
                                                  !.auto_failed = ~dc.val.success]]
                          ELSE [ok |-> TRUE, err |-> "", meta |-> f,
                                vw |-> sv.val]

\* the blank image both viewers get when the queue is empty
BlankViewer(vw) ==
    set_image(vw, 0, [w |-> 100, h |-> 100, ops |-> <<>>], NoCorners,
              FALSE, FALSE).val

\* lastsave and overflow describe the handler that ran last: the call of save_image_with_meta it made (fn is
\* "save" when the call returned, "save raised" when it raised, "raised"
\* when the try block raised before it, "meta raised" when the load for the
\* missing metadata raised), the RecursionError it ended by
NoSave == [out |-> 0, fn |-> "none"]

AppInit ==
    /\ platform \in {"posix", "windows"}
    /\ queue = <<>>
    /\ current_index = -1
    /\ current_meta = 0
    /\ viewer = EmptyViewer
    /\ preview = NoPreview
    /\ qrow = -1
    /\ apc = "idle"
    /\ adepth = 0
    /\ aafter = FALSE
    /\ overflow = FALSE
    /\ lastsave = NoSave
    /\ CoreIdle
    /\ SharpenIdle
    /\ DisplayIdle
    /\ DebounceIdle

others == <<corevars, svars, yvars, tvars, platform>>


\* _load_current_image, the try block completing
LoadOk ==
    /\ apc = "load"
    /\ LET sh == Shown(queue[current_index + 1].path, viewer)
       IN  /\ sh.ok
           /\ current_meta' = sh.meta
           /\ viewer' = sh.vw
           /\ preview' = UpdatedPreview(queue, current_index, sh.vw, preview)
    /\ apc' = "idle"
    /\ qrow' = IF aafter \/ adepth > 0 THEN current_index ELSE qrow
    /\ adepth' = 0
    /\ aafter' = FALSE
    /\ overflow' = FALSE
    /\ lastsave' = NoSave
    /\ UNCHANGED <<queue, current_index, others>>

\* _load_current_image, the except block: the item is marked, the list
\* refreshed and _go_next called, which calls _load_current_image again
LoadFail ==
    /\ apc = "load"
    /\ LET sh == Shown(queue[current_index + 1].path, viewer)
       IN  /\ ~sh.ok
           /\ current_meta' = IF sh.meta # 0 THEN sh.meta ELSE current_meta
           /\ viewer' = sh.vw
           /\ queue' = MarkError(queue, current_index, sh.err)
    /\ qrow' = current_index
    /\ IF adepth < MaxDepth
       THEN /\ current_index' = (current_index + 1) % Len(queue)
            /\ adepth' = adepth + 1
            /\ UNCHANGED <<apc, aafter>>
            /\ overflow' = FALSE
       ELSE /\ overflow' = TRUE
            /\ apc' = "idle"
            /\ adepth' = 0
            /\ aafter' = FALSE
            /\ UNCHANGED current_index
    /\ lastsave' = NoSave
    /\ UNCHANGED <<preview, others>>

\* _add_paths_to_queue(paths)
AddPathsToQueue(paths) ==
    LET nq == Appended(queue, paths)
    IN  /\ queue' = nq
        /\ qrow' = RefreshedRow(nq, current_index)
        /\ IF Len(nq) > Len(queue) /\ current_index < 0
           THEN /\ current_index' = 0
                /\ apc' = "load"
           ELSE UNCHANGED <<current_index, apc>>
        /\ overflow' = FALSE
        /\ lastsave' = NoSave
        /\ UNCHANGED <<current_meta, viewer, preview, adepth, aafter,
                       others>>

\* _add_files when the dialog returns the files S; its filter "Tous (*.*)"
\* lets any file be picked
AddFilesOf(S) ==
    /\ apc = "idle"
    /\ AddPathsToQueue(SortedFiles(S))

AddFiles == \E S \in SUBSET Disk \ {{}} : AddFilesOf(S)

\* p.glob("*" + ext): the names that end in ext, by case on a file system
\* that tells cases apart
GlobMatches(f, ext) ==
    IF platform = "posix" THEN FileSuffix(f) = ext
    ELSE Lower(FileSuffix(f)) = ext

\* the handler returns without touching the queue
NothingAdded ==
    /\ overflow' = FALSE
    /\ lastsave' = NoSave
    /\ UNCHANGED <<queue, current_index, current_meta, viewer, preview, qrow,
                   apc, adepth, aafter, others>>

\* _add_input_folder and _fill_from_input: _scan_and_add_folder(p), p the
\* directory that holds the files of Disk
ScanAndAddFolder ==
    /\ apc = "idle"
    /\ LET files == {f \in Disk :
                        \E ext \in SUPPORTED_EXTENSIONS : GlobMatches(f, ext)}
       IN  IF files # {}
           THEN AddPathsToQueue(SortedFiles(files))
           ELSE NothingAdded

\* the lists of urls a drop of the files S can carry: each file once, or
\* the first of them once more at the end
Listings(S) ==
    LET once == SortedFiles(S)
    IN  {once, Append(once, Head(once))}

\* the paths of urls whose lowered suffix is supported, in their order
RECURSIVE SupportedOf(_)
SupportedOf(urls) ==
    IF Len(urls) = 0 THEN <<>>
    ELSE (IF Lower(FileSuffix(Head(urls))) \in SUPPORTED_EXTENSIONS
          THEN <<Head(urls)>> ELSE <<>>) \o SupportedOf(Tail(urls))

\* _queue_drop when the files S are dropped on the list
QueueDropOf(S) ==
    /\ apc = "idle"
    /\ \E urls \in Listings(S) :
          LET paths == SupportedOf(urls)
          IN  IF Len(paths) > 0
              THEN AddPathsToQueue(paths)
              ELSE NothingAdded

QueueDrop == \E S \in SUBSET Disk \ {{}} : QueueDropOf(S)

\* the user picks another row of the list: _on_queue_selection(row)
OnQueueSelection ==
    /\ apc = "idle"
    /\ \E row \in 0..(Len(queue) - 1) :
          /\ row # qrow
          /\ qrow' = row
          /\ current_index' = row
    /\ apc' = "load"
    /\ overflow' = FALSE
    /\ lastsave' = NoSave
    /\ UNCHANGED <<queue, current_meta, viewer, preview, adepth, aafter,
                   others>>

\* _remove_selected
RemoveSelected ==
    /\ apc = "idle"
    /\ 0 <= qrow /\ qrow < Len(queue)
    /\ LET nq == [k \in 1..(Len(queue) - 1) |->
                     IF k <= qrow THEN queue[k] ELSE queue[k + 1]]
           idx == Min(current_index, Len(nq) - 1)
       IN  /\ queue' = nq
           /\ qrow' = RefreshedRow(nq, current_index)
           /\ current_index' = idx
           /\ IF idx >= 0
              THEN /\ apc' = "load"
                   /\ UNCHANGED <<viewer, preview>>
              ELSE /\ viewer' = BlankViewer(viewer)
                   /\ preview' = NoPreview
                   /\ UNCHANGED apc
    /\ overflow' = FALSE
    /\ lastsave' = NoSave
    /\ UNCHANGED <<current_meta, adepth, aafter, others>>

\* _clear_queue
ClearQueue ==
    /\ apc = "idle"
    /\ queue # <<>>
    /\ queue' = <<>>
    /\ current_index' = -1
    /\ qrow' = -1
    /\ viewer' = BlankViewer(viewer)
    /\ preview' = NoPreview
    /\ overflow' = FALSE
    /\ lastsave' = NoSave
    /\ UNCHANGED <<current_meta, apc, adepth, aafter, others>>

\* _go_next without the modulo
GoNextNoWrap ==
    /\ apc = "idle"
    /\ queue # <<>>
    /\ current_index' = current_index + 1
    /\ apc' = "load"
    /\ aafter' = TRUE
    /\ overflow' = FALSE
    /\ lastsave' = NoSave
    /\ UNCHANGED <<queue, current_meta, viewer, preview, qrow, adepth,
                   others>>

\* _go_next, also called by _skip_current
GoNext ==
    /\ apc = "idle"
    /\ queue # <<>>
    /\ current_index' = (current_index + 1) % Len(queue)
    /\ apc' = "load"
    /\ aafter' = TRUE
    /\ overflow' = FALSE
    /\ lastsave' = NoSave
    /\ UNCHANGED <<queue, current_meta, viewer, preview, qrow, adepth,
                   others>>

\* _go_prev
GoPrev ==
    /\ apc = "idle"
    /\ queue # <<>>
    /\ current_index' = (current_index - 1) % Len(queue)
    /\ apc' = "load"
    /\ aafter' = TRUE
    /\ overflow' = FALSE
    /\ lastsave' = NoSave
    /\ UNCHANGED <<queue, current_meta, viewer, preview, qrow, adepth,
                   others>>

\* _run_auto, also called by _run_reset
RunAuto ==
    /\ apc = "idle"
    /\ 0 <= current_index /\ current_index < Len(queue)
    /\ LET sh == Shown(queue[current_index + 1].path, viewer)
       IN  /\ current_meta' = IF sh.meta # 0 THEN sh.meta ELSE current_meta
           /\ viewer' = sh.vw
           /\ preview' = IF sh.ok
                         THEN UpdatedPreview(queue, current_index, sh.vw,
                                             preview)
                         ELSE preview
    /\ overflow' = FALSE
    /\ lastsave' = NoSave
    /\ UNCHANGED <<queue, current_index, qrow, apc, adepth, aafter, others>>

\* the display coordinates a dragged handle is left at
DragTargets == { <<10, 10>> }

\* mouseMoveEvent with a handle held: the corner follows the pointer
DragCorner ==
    /\ apc = "idle"
    /\ viewer.corners # NoCorners
    /\ \E k \in {1}, t \in DragTargets :
          /\ viewer.corners.pts[k]
                # <<t[1] * viewer.corners.den, t[2] * viewer.corners.den>>
          /\ viewer' = [viewer EXCEPT !.corners.pts[k] =
                           <<t[1] * viewer.corners.den,
                             t[2] * viewer.corners.den>>]
    /\ overflow' = FALSE
    /\ lastsave' = NoSave
    /\ UNCHANGED <<queue, current_index, current_meta, preview, qrow, apc,
                   adepth, aafter, others>>

\* the debounce timer times out: _update_preview
PreviewTimeout ==
    /\ apc = "idle"
    /\ preview' = UpdatedPreview(queue, current_index, viewer, preview)
    /\ preview' # preview
    /\ overflow' = FALSE
    /\ lastsave' = NoSave
    /\ UNCHANGED <<queue, current_index, current_meta, viewer, qrow, apc,
                   adepth, aafter, others>>

\* build_output_path(item.path, output_dir, suffix): the file it names
build_output_path(f) == [stem |-> f, suffix |-> FileSuffix(f)]

\* str(e) of an exception raised in the try block of _validate_and_save
TryBlockError == "raised while saving"

\* what can happen between the corners and the end of the try block of
\* _validate_and_save
SaveOutcomes == {"saved", "pipeline raises", "save raises"}

\* _validate_and_save
ValidateAndSave ==
    /\ apc = "idle"
    /\ 0 <= current_index /\ current_index < Len(queue)
    /\ LET f == queue[current_index + 1].path
           r == load_image_with_meta(f)
           c == get_corners_in_original_scale(viewer)
           unchanged == /\ lastsave' = [out |-> 0, fn |-> "meta raised"]
                        /\ UNCHANGED <<queue, current_index, current_meta,
                                       qrow, apc, aafter>>
       IN  IF current_meta = 0 /\ ~r.ok
           THEN \* the metadata cannot be read: logged, nothing else
                unchanged
           ELSE IF ~r.ok \/ ~c.ok
           THEN /\ queue' = MarkError(queue, current_index,
                                      IF ~r.ok THEN r.err ELSE c.err)
                /\ qrow' = current_index
                /\ current_meta' = IF current_meta = 0 THEN f ELSE current_meta
                /\ lastsave' = [out |-> 0, fn |-> "raised"]
                /\ UNCHANGED <<current_index, apc, aafter>>
           ELSE IF c.val = NoCorners
           THEN /\ current_meta' = IF current_meta = 0 THEN f ELSE current_meta
                /\ lastsave' = NoSave
                /\ UNCHANGED <<queue, current_index, qrow, apc, aafter>>
           ELSE \E outcome \in SaveOutcomes :
                  /\ current_meta' = IF current_meta = 0 THEN f
                                     ELSE current_meta
                  /\ IF outcome = "saved"
                     THEN /\ lastsave' =
                                [out |-> build_output_path(f), fn |-> "save",
                                 buffer |-> PipelineCall(f, r.val.img, c.val),
                                 meta |-> current_meta']
                          /\ queue' = MarkDone(queue, current_index)
                          /\ current_index' =
                                (current_index + 1) % Len(queue)
                          /\ apc' = "load"
                          /\ aafter' = TRUE
                          /\ UNCHANGED qrow
                     ELSE /\ IF outcome = "save raises"
                             THEN lastsave' =
                                    [out |-> build_output_path(f),
                                     fn |-> "save raised",
                                     buffer |-> PipelineCall(f, r.val.img,
                                                             c.val),
                                     meta |-> current_meta']
                             ELSE lastsave' = [out |-> 0, fn |-> "raised"]
                          /\ queue' = MarkError(queue, current_index,
                                                 TryBlockError)
                          /\ qrow' = current_index
                          /\ UNCHANGED <<current_index, apc, aafter>>
    /\ overflow' = FALSE
    /\ UNCHANGED <<viewer, preview, adepth, others>>

AppNext ==
    \/ LoadOk
    \/ LoadFail
    \/ AddFiles
    \/ ScanAndAddFolder
    \/ QueueDrop
    \/ OnQueueSelection
    \/ RemoveSelected
    \/ ClearQueue
    \/ GoNext
    \/ GoPrev
    \/ RunAuto
    \/ DragCorner
    \/ PreviewTimeout
    \/ ValidateAndSave

SpecApp == AppInit /\ [][AppNext]_vars

---------------------------------------------------------------------------
(* The queue under failures *)

\* a step in which loading or saving the current item raises
FailureStep ==
    \/ LoadFail
    \/ ValidateAndSave /\ lastsave'.fn \in {"raised", "save raised"}

\* C14: when loading or saving item i raises, item i and no other gets the
\* status ERROR and an error_message; the path, status and error_message
\* of every other item, the length of the queue and its order stay as
\* they were
C14_FailureIsLocal ==
    [][FailureStep =>
         LET i == current_index + 1
         IN  /\ Len(queue') = Len(queue)
             /\ \A j \in 1..Len(queue) :
                   /\ queue'[j].path = queue[j].path
                   /\ j # i => queue'[j] = queue[j]
             /\ queue'[i].status = "error"
             /\ queue'[i].error_message # "None"]_vars

\* saving one of three items has just raised, while another item is DONE
\* and the damaged file keeps the error of its own load
C14_Witness ==
    /\ lastsave.fn = "save raised"
    /\ Len(queue) = 3
    /\ \E i, j, k \in 1..3 :
          /\ queue[i].status = "error"
          /\ queue[i].error_message = TryBlockError
          /\ queue[j].status = "done"
          /\ queue[k].path = 3
          /\ queue[k].status = "error"
          /\ queue[k].error_message = "cannot identify image file"


---------------------------------------------------------------------------
(* The warning of the viewer *)

\* success as auto_detect_corners returns it for the image of file f
DetectionSucceeds(f) ==
    auto_detect_corners(FileImage(f), DefaultDownscale,
                        FileContours(f)).val.success

\* C15: whenever the viewer shows the image of a file, its auto_failed
\* flag is set if and only if auto_detect_corners returned success = false
\* for that image
C15_WarningMatchesDetection ==
    viewer.file \in Disk => (viewer.auto_failed <=> ~DetectionSucceeds(viewer.file))

\* the second item, on which detection finds nothing, is shown with the
\* warning after the first item, on which it succeeds, was saved
C15_Witness ==
    /\ apc = "idle"
    /\ Len(queue) >= 2
    /\ queue[1].path = 1
    /\ queue[1].status = "done"
    /\ current_index = 1
    /\ viewer.file = 2
    /\ viewer.auto_failed

---------------------------------------------------------------------------
(* The files admitted to the queue *)

\* of the files S offered and not yet queued, the step queues those whose
\* lowered extension is supported, and no other
Admits(S) ==
    \A f \in S \ Paths(queue) :
        f \in Paths(queue') <=> Lower(FileSuffix(f)) \in SUPPORTED_EXTENSIONS

\* C16, as the specification states it: through the file dialog, the scan
\* of a folder and a drop on the list, a file is admitted to the queue if
\* and only if its extension, compared without case, is supported
C16_AsStated ==
    [][/\ \A S \in SUBSET Disk \ {{}} :
             /\ AddFilesOf(S) => Admits(S)
             /\ QueueDropOf(S) => Admits(S)
        /\ ScanAndAddFolder => Admits(Disk)]_vars

---------------------------------------------------------------------------
(* The image that is saved *)

\* C17: the image handed to save_image_with_meta is full_pipeline of the
\* image read from the path of the item, at its full size, with the
\* corners of the viewer brought back from the scale of the display to
\* that of the image
C17_SavedAtFullResolution ==
    lastsave.fn \in {"save", "save raised"} =>
        LET f == lastsave.out.stem
            b == lastsave.buffer
        IN  /\ b.fn = "full_pipeline"
            /\ b.file = f
            /\ viewer.file = f
            /\ b.img = FileImage(f)
            /\ b.ref_max_dim = LargestDim(FileImage(f))
            /\ Scaled(b.corners, LargestDim(viewer.pixmap), LargestDim(b.img))
                  = viewer.corners

\* the first file, shown at three quarters of its size, is saved after a
\* corner was dragged
C17_Witness ==
    /\ lastsave.fn = "save"
    /\ lastsave.out.stem = 1
    /\ LargestDim(viewer.pixmap) = DISPLAY_MAX_DIM
    /\ LargestDim(lastsave.buffer.img) > DISPLAY_MAX_DIM
    /\ viewer.corners.pts[1]
          = <<10 * viewer.corners.den, 10 * viewer.corners.den>>
    /\ lastsave.buffer.corners # viewer.corners

---------------------------------------------------------------------------
(* The end of a load *)

\* C20, as the specification states it: a call of _load_current_image
\* returns, at some item or with the failing items marked, and is not
\* ended by the nesting of _go_next and _load_current_image using up the
\* stack
C20_AsStated == ~overflow

---------------------------------------------------------------------------
(* The fields of a queue item *)

\* C21, as the specification states it: a queue item whose status is DONE
\* has no error_message, whatever loads and saves of it failed before
C21_AsStated ==
    \A i \in 1..Len(queue) :
        queue[i].status = "done" => queue[i].error_message = "None"


---------------------------------------------------------------------------
(* The sizes asked of cv2.resize *)

\* C23, as the specification states it: for every image of at least 1 x 1
\* pixels the width and the height that get_display_image, in its
\* downscale branch, and clamp_size, in its downscale and upscale
\* branches, ask of cv2.resize are both at least 1, so that the resize
\* returns an image with both sides at least 1
C23_AsStated ==
    /\ (yout.called /\ LargestDim(yimg) > ymax)
          => (yout.ok /\ yout.val.w >= 1 /\ yout.val.h >= 1)
    /\ cout.called
          => (cout.ok /\ cout.val.w >= 1 /\ cout.val.h >= 1)


---------------------------------------------------------------------------
(* The paths of the queue *)

\* a step of one of the ways of adding files
AddStep ==
    \/ ScanAndAddFolder
    \/ \E S \in SUBSET Disk \ {{}} : AddFilesOf(S) \/ QueueDropOf(S)

\* C24: the paths of the queue are pairwise distinct, after any adds,
\* drops that list a path twice, removals and clears; a step that adds
\* files leaves every item already queued at its place with its status
\* and message
C24_NoDuplicatePaths ==
    /\ [](\A i, j \in 1..Len(queue) :
              queue[i].path = queue[j].path => i = j)
    /\ [][AddStep => /\ Len(queue') >= Len(queue)
                     /\ \A i \in 1..Len(queue) : queue'[i] = queue[i]]_vars

\* every file is queued, one saved and one in error: whatever is added
\* now is in the queue already
C24_Witness ==
    /\ apc = "idle"
    /\ Paths(queue) = Disk
    /\ Len(queue) = Cardinality(Disk)
    /\ \E i, j \in 1..Len(queue) :
          queue[i].status = "done" /\ queue[j].status = "error"


---------------------------------------------------------------------------
(* The current index *)

\* C25: the current index is -1 exactly when the queue is empty and is
\* the index of an item otherwise; next (and skip) moves it one item on
\* and from the last item to the first, previous one item back and from
\* the first item to the last
C25_IndexConsistent ==
    /\ []((current_index = -1 <=> queue = <<>>)
           /\ (queue # <<>> =>
                 (0 <= current_index /\ current_index < Len(queue))))
    /\ [][LET after_next == IF current_index = Len(queue) - 1 THEN 0
                             ELSE current_index + 1
               after_prev == IF current_index = 0 THEN Len(queue) - 1
                             ELSE current_index - 1
           IN  (GoNext => (current_index' = after_next))
                 /\ (GoPrev => (current_index' = after_prev))]_vars

\* the last of several items has just been saved and the index is back
\* at the first
C25_Witness ==
    /\ lastsave.fn = "save"
    /\ Len(queue) >= 2
    /\ lastsave.out.stem = queue[Len(queue)].path
    /\ current_index = 0


---------------------------------------------------------------------------
(* clamp_size applied twice *)

\* C26, as the specification states it: with min_scale_factor <=
\* max_scale_factor, clamp_size applied with the same reference and
\* factors to the image it returned takes the branch that returns the
\* image as it is, so the width and the height stay
C26_AsStated ==
    (cagain.called /\ MinScalePct <= cpct) =>
        (cagain.ok /\ cagain.val = cout.val)

=============================================================================
